---- MODULE Spec2Model ----
(***************************************************************************)
(* Model of SinglyLinkedList<T> (src/SinglyLinkedList.h): a heap of nodes  *)
(* linked by owning next-pointers (std::unique_ptr<Node>), two named       *)
(* containers "a" and "b" plus the by-value parameter of operator= ("tmp").*)
(* Iterators are node pointers (NULL is end()); operator++ is one step of  *)
(* Walk.  Every public member function is an operator from a program state *)
(* to a result [st, err, ret]; an action applies one such call to the      *)
(* current state.                                                          *)
(***************************************************************************)
EXTENDS Integers, Sequences, FiniteSets, TLC

\* ---------------------------------------------------------------- bounds
MaxNodes == 3          \* nodes the heap can hold at the same time
MaxInit == 3           \* longest initializer list

\* ------------------------------------------------------------- constants
NULL == 0              \* nullptr
SIZE_MAX == 2147483647 \* largest std::size_t (stands for 2^64 - 1)

Node == 1..MaxNodes
Ptr == Node \cup {NULL}
\* element values: the container never inspects an element, so two
\* distinguishable values show every order and every copy
Val == {1, 2}
List == {"a", "b"}     \* the containers of the client program
Slot == List \cup {"tmp"}   \* plus the parameter object of operator=

VARIABLES head, tail, list_size, next, data, live, exists, fault, last, prev

vars == <<head, tail, list_size, next, data, live, exists, fault, last, prev>>

\* The program state as one record: the fields of every container
\* (head_, tail_, list_size), the heap (next, data of each node, the set of
\* allocated nodes), which container objects are alive, and whether the
\* run has hit undefined behaviour.  depth is the deepest nesting of ~Node
\* calls reached so far in the running call: 0 between calls.
St == [head |-> head, tail |-> tail, size |-> list_size, next |-> next,
       data |-> data, live |-> live, exists |-> exists, fault |-> fault,
       depth |-> 0]

\* ---------------------------------------------------------- heap helpers
RECURSIVE Walk(_, _, _)
\* iterator::operator++ repeated from n until the end sentinel: the nodes
\* visited, at most fuel of them
Walk(nx, n, fuel) ==
    IF n = NULL \/ fuel = 0 THEN <<>>
    ELSE <<n>> \o Walk(nx, nx[n], fuel - 1)

SeqSet(q) == {q[i] : i \in 1..Len(q)}

\* the nodes from begin() to end() of container l
Chain(s, l) == Walk(s.next, s.head[l], MaxNodes + 1)

\* the element values from begin() to end() of container l
Elems(s, l) == LET c == Chain(s, l) IN [i \in 1..Len(c) |-> s.data[c[i]]]

\* ++list_size and --list_size on std::size_t
Inc(n) == IF n = SIZE_MAX THEN 0 ELSE n + 1
Dec(n) == IF n = 0 THEN SIZE_MAX ELSE n - 1

RECURSIVE Nesting(_, _, _)
\* how deep the ~Node calls nest when node n is deleted: ~Node destroys the
\* member next, whose ~unique_ptr deletes the next node before ~Node of n
\* returns
Nesting(nx, n, fuel) ==
    IF n = NULL \/ fuel = 0 THEN 0
    ELSE 1 + Nesting(nx, nx[n], fuel - 1)

\* delete of node n: ~Node destroys n->next, which deletes the next node,
\* and so on down the owned chain.  Deleting a node that is not allocated
\* (or the same node twice) is a double free.
Release(s, n) ==
    LET w == Walk(s.next, n, MaxNodes + 1)
        S == SeqSet(w)
        k == Nesting(s.next, n, MaxNodes + 1)
    IN [s EXCEPT !.depth = IF k > @ THEN k ELSE @,
                 !.live = @ \ S,
                 !.next = [x \in Node |-> IF x \in S THEN NULL ELSE @[x]],
                 !.data = [x \in Node |-> IF x \in S THEN 0 ELSE @[x]],
                 !.fault = IF S \subseteq s.live /\ Cardinality(S) = Len(w)
                           THEN @ ELSE "double_free"]

\* unique_ptr assignment / reset on a node's next member: store the new
\* pointer, then delete what was owned before
SetNext(s, n, new) ==
    LET old == s.next[n]
        s1 == [s EXCEPT !.next[n] = new]
    IN IF old = NULL THEN s1 ELSE Release(s1, old)

\* unique_ptr assignment / reset on head_
SetHead(s, l, new) ==
    LET old == s.head[l]
        s1 == [s EXCEPT !.head[l] = new]
    IN IF old = NULL THEN s1 ELSE Release(s1, old)

\* the address std::make_unique<Node> returns: the first free cell
NewNode(s) == CHOOSE n \in Node \ s.live : \A x \in Node \ s.live : n <= x

\* std::make_unique<Node>(value): data(value), next(nullptr)
MakeNode(s, n, v) ==
    [s EXCEPT !.live = @ \cup {n}, !.data[n] = v, !.next[n] = NULL]

Ok(s) == [st |-> s, err |-> "none", ret |-> NULL]
Throw(s, e) == [st |-> s, err |-> e, ret |-> NULL]
Crash(s, f) == [st |-> [s EXCEPT !.fault = f], err |-> "none", ret |-> NULL]

\* ------------------------------------------------------------- lifecycle
\* SinglyLinkedList() noexcept
default_ctor(s, l) ==
    [s EXCEPT !.head[l] = NULL, !.tail[l] = NULL, !.size[l] = 0,
              !.exists[l] = TRUE]

\* ~SinglyLinkedList() = default: head_ is destroyed and deletes the chain
destroy(s, l) ==
    LET s1 == SetHead(s, l, NULL)
    IN [s1 EXCEPT !.tail[l] = NULL, !.size[l] = 0, !.exists[l] = FALSE]

\* move constructor that forgets other.tail_ = nullptr
move_ctor_keepTail(s, l, m) ==
    LET s1 == [s EXCEPT !.exists[l] = TRUE,
                        !.head[l] = s.head[m],
                        !.tail[l] = s.tail[m],
                        !.size[l] = s.size[m]]
    IN [s1 EXCEPT !.head[m] = NULL, !.size[m] = 0]

\* move constructor that forgets other.list_size = 0
move_ctor_keepSize(s, l, m) ==
    LET s1 == [s EXCEPT !.exists[l] = TRUE,
                        !.head[l] = s.head[m],
                        !.tail[l] = s.tail[m],
                        !.size[l] = s.size[m]]
    IN [s1 EXCEPT !.head[m] = NULL, !.tail[m] = NULL]

\* SinglyLinkedList(SinglyLinkedList&& other) noexcept
move_ctor(s, l, m) ==
    LET s1 == [s EXCEPT !.exists[l] = TRUE,
                        !.head[l] = s.head[m],
                        !.tail[l] = s.tail[m],
                        !.size[l] = s.size[m]]
    IN [s1 EXCEPT !.head[m] = NULL, !.tail[m] = NULL, !.size[m] = 0]

\* swap that forgets to exchange list_size
swap_noSize(s, a, b) ==
    [s EXCEPT !.head = [@ EXCEPT ![a] = s.head[b], ![b] = s.head[a]],
              !.tail = [@ EXCEPT ![a] = s.tail[b], ![b] = s.tail[a]]]

\* friend void swap(a, b) noexcept
swap(s, a, b) ==
    [s EXCEPT !.head = [@ EXCEPT ![a] = s.head[b], ![b] = s.head[a]],
              !.tail = [@ EXCEPT ![a] = s.tail[b], ![b] = s.tail[a]],
              !.size = [@ EXCEPT ![a] = s.size[b], ![b] = s.size[a]]]

\* void clear() noexcept
clear(s, l) ==
    LET s1 == SetHead(s, l, NULL)
    IN [s1 EXCEPT !.tail[l] = NULL, !.size[l] = 0]

\* ------------------------------------------------------------- modifiers
\* push_front(const T&), push_front(T&&), emplace_front(Args&&...)
push_front(s, l, v) ==
    LET n == NewNode(s)
        s1 == MakeNode(s, n, v)
        s2 == IF s1.head[l] = NULL
              THEN [s1 EXCEPT !.tail[l] = n]
              ELSE [s1 EXCEPT !.next[n] = s1.head[l], !.head[l] = NULL]
        s3 == SetHead(s2, l, n)
    IN Ok([s3 EXCEPT !.size[l] = Inc(@)])

\* push_back that sets tail_ only when the list was empty
push_back_staleTail(s, l, v) ==
    LET n == NewNode(s)
        s1 == MakeNode(s, n, v)
    IN IF s1.head[l] # NULL /\ s1.tail[l] = NULL
       THEN Crash(s1, "null_deref")
       ELSE LET s2 == IF s1.head[l] = NULL
                      THEN [SetHead(s1, l, n) EXCEPT !.tail[l] = n]
                      ELSE SetNext(s1, s1.tail[l], n)
            IN Ok([s2 EXCEPT !.size[l] = Inc(@)])

\* push_back(const T&), push_back(T&&), emplace_back(Args&&...)
push_back(s, l, v) ==
    LET n == NewNode(s)
        s1 == MakeNode(s, n, v)
    IN IF s1.head[l] # NULL /\ s1.tail[l] = NULL
       THEN Crash(s1, "null_deref")
       ELSE LET s2 == IF s1.head[l] = NULL
                      THEN SetHead(s1, l, n)
                      ELSE SetNext(s1, s1.tail[l], n)
            IN Ok([s2 EXCEPT !.tail[l] = n, !.size[l] = Inc(@)])

\* pop_front that returns silently on an empty list
pop_front_silent(s, l) ==
    IF s.head[l] = NULL THEN Ok(s)
    ELSE LET old == s.head[l]
             nn == s.next[old]
             s1 == [s EXCEPT !.next[old] = NULL]
             s2 == SetHead(s1, l, nn)
             s3 == IF s2.head[l] = NULL THEN [s2 EXCEPT !.tail[l] = NULL]
                   ELSE s2
         IN Ok([s3 EXCEPT !.size[l] = Dec(@)])

\* pop_front that counts down before it checks for an empty list
pop_front_earlyDec(s, l) ==
    IF s.head[l] = NULL THEN Throw([s EXCEPT !.size[l] = Dec(@)], "out_of_range")
    ELSE LET old == s.head[l]
             nn == s.next[old]
             s1 == [s EXCEPT !.next[old] = NULL]
             s2 == SetHead(s1, l, nn)
             s3 == IF s2.head[l] = NULL THEN [s2 EXCEPT !.tail[l] = NULL]
                   ELSE s2
         IN Ok([s3 EXCEPT !.size[l] = Dec(@)])

\* pop_front that leaves tail_ alone when the list becomes empty
pop_front_keepTail(s, l) ==
    IF s.head[l] = NULL THEN Throw(s, "out_of_range")
    ELSE LET old == s.head[l]
             nn == s.next[old]
             s1 == [s EXCEPT !.next[old] = NULL]
             s2 == SetHead(s1, l, nn)
         IN Ok([s2 EXCEPT !.size[l] = Dec(@)])

\* pop_front that resets head_ to the second node without taking it out of
\* the first node's next: deleting the first node deletes the whole chain
pop_front_cascade(s, l) ==
    IF s.head[l] = NULL THEN Throw(s, "out_of_range")
    ELSE LET old == s.head[l]
             nn == s.next[old]
             s2 == SetHead(s, l, nn)
             s3 == IF s2.head[l] = NULL THEN [s2 EXCEPT !.tail[l] = NULL]
                   ELSE s2
         IN Ok([s3 EXCEPT !.size[l] = Dec(@)])

\* void pop_front()
pop_front(s, l) ==
    IF s.head[l] = NULL THEN Throw(s, "out_of_range")
    ELSE LET old == s.head[l]
             nn == s.next[old]
             s1 == [s EXCEPT !.next[old] = NULL]
             s2 == SetHead(s1, l, nn)
             s3 == IF s2.head[l] = NULL THEN [s2 EXCEPT !.tail[l] = NULL]
                   ELSE s2
         IN Ok([s3 EXCEPT !.size[l] = Dec(@)])

\* a walk that does not advance: it stops at the node it starts from
FindPred_noWalk(nx, cur, tl, fuel) == cur

RECURSIVE FindPred(_, _, _, _)
\* the loop of pop_back: while (current->next.get() != tail_) current =
\* current->next.get();  NULL when the walk runs off the chain
FindPred(nx, cur, tl, fuel) ==
    IF cur = NULL \/ fuel = 0 THEN NULL
    ELSE IF nx[cur] = tl THEN cur
    ELSE FindPred(nx, nx[cur], tl, fuel - 1)

\* void pop_back()
pop_back(s, l) ==
    IF s.head[l] = NULL THEN Throw(s, "out_of_range")
    ELSE IF s.head[l] = s.tail[l] THEN pop_front(s, l)
    ELSE LET cur == FindPred(s.next, s.head[l], s.tail[l], MaxNodes + 1)
         IN IF cur = NULL THEN Crash(s, "null_deref")
            ELSE LET s1 == SetNext(s, cur, NULL)
                 IN Ok([s1 EXCEPT !.tail[l] = cur, !.size[l] = Dec(@)])

\* insert_after that forgets to move tail_ when inserting after the tail
insert_after_keepTail(s, l, pos, v) ==
    IF pos = NULL THEN Throw(s, "invalid_argument")
    ELSE LET n == NewNode(s)
             s1 == MakeNode(s, n, v)
             s3 == [s1 EXCEPT !.next[n] = s1.next[pos], !.next[pos] = NULL]
             s4 == SetNext(s3, pos, n)
         IN [st |-> [s4 EXCEPT !.size[l] = Inc(@)], err |-> "none", ret |-> n]

\* insert_after(const_iterator, const T&), insert_after(const_iterator, T&&),
\* emplace_after(const_iterator, Args&&...)
insert_after(s, l, pos, v) ==
    IF pos = NULL THEN Throw(s, "invalid_argument")
    ELSE LET n == NewNode(s)
             s1 == MakeNode(s, n, v)
             s2 == IF s1.tail[l] = pos THEN [s1 EXCEPT !.tail[l] = n] ELSE s1
             s3 == [s2 EXCEPT !.next[n] = s2.next[pos], !.next[pos] = NULL]
             s4 == SetNext(s3, pos, n)
         IN [st |-> [s4 EXCEPT !.size[l] = Inc(@)], err |-> "none", ret |-> n]

\* erase_after that forgets --list_size
erase_after_noDec(s, l, pos) ==
    IF pos = NULL \/ s.next[pos] = NULL THEN Throw(s, "out_of_range")
    ELSE LET d == s.next[pos]
             s1 == [s EXCEPT !.next[pos] = NULL]
             nn == s1.next[d]
             s2 == IF s1.tail[l] = d THEN [s1 EXCEPT !.tail[l] = pos] ELSE s1
             s3 == SetNext([s2 EXCEPT !.next[d] = NULL], pos, nn)
         IN [st |-> Release(s3, d), err |-> "none", ret |-> nn]

\* erase_after that checks only for the end sentinel: at the tail it
\* dereferences the null to_delete
erase_after_noSuccCheck(s, l, pos) ==
    IF pos = NULL THEN Throw(s, "out_of_range")
    ELSE IF s.next[pos] = NULL THEN Crash(s, "null_deref")
    ELSE LET d == s.next[pos]
             s1 == [s EXCEPT !.next[pos] = NULL]
             nn == s1.next[d]
             s2 == IF s1.tail[l] = d THEN [s1 EXCEPT !.tail[l] = pos] ELSE s1
             s3 == SetNext([s2 EXCEPT !.next[d] = NULL], pos, nn)
             s4 == [s3 EXCEPT !.size[l] = Dec(@)]
         IN [st |-> Release(s4, d), err |-> "none", ret |-> nn]

\* erase_after that forgets to move tail_ back when it erases the tail
erase_after_keepTail(s, l, pos) ==
    IF pos = NULL \/ s.next[pos] = NULL THEN Throw(s, "out_of_range")
    ELSE LET d == s.next[pos]
             s1 == [s EXCEPT !.next[pos] = NULL]
             nn == s1.next[d]
             s3 == SetNext([s1 EXCEPT !.next[d] = NULL], pos, nn)
             s4 == [s3 EXCEPT !.size[l] = Dec(@)]
         IN [st |-> Release(s4, d), err |-> "none", ret |-> nn]

\* iterator erase_after(const_iterator pos)
erase_after(s, l, pos) ==
    IF pos = NULL \/ s.next[pos] = NULL THEN Throw(s, "out_of_range")
    ELSE LET d == s.next[pos]
             s1 == [s EXCEPT !.next[pos] = NULL]
             nn == s1.next[d]
             s2 == IF s1.tail[l] = d THEN [s1 EXCEPT !.tail[l] = pos] ELSE s1
             s3 == SetNext([s2 EXCEPT !.next[d] = NULL], pos, nn)
             s4 == [s3 EXCEPT !.size[l] = Dec(@)]
         IN [st |-> Release(s4, d), err |-> "none", ret |-> nn]

RECURSIVE RevLoop(_, _, _, _)
\* the loop of reverse: each node's next is pointed at the node before it
RevLoop(nx, prv, cur, fuel) ==
    IF cur = NULL \/ fuel = 0 THEN [next |-> nx, prev |-> prv]
    ELSE RevLoop([nx EXCEPT ![cur] = prv], cur, nx[cur], fuel - 1)

\* reverse that forgets tail_ = current.get()
reverse_keepTail(s, l) ==
    IF s.size[l] < 2 THEN s
    ELSE LET r == RevLoop(s.next, NULL, s.head[l], MaxNodes + 1)
         IN [s EXCEPT !.next = r.next, !.head[l] = r.prev]

\* reverse that forgets the final head_.reset(prev)
reverse_noAdopt(s, l) ==
    IF s.size[l] < 2 THEN s
    ELSE LET r == RevLoop(s.next, NULL, s.head[l], MaxNodes + 1)
         IN [s EXCEPT !.tail[l] = s.head[l], !.next = r.next,
                      !.head[l] = NULL]

\* reverse with the early return off by one: two elements are left alone
reverse_sizeLimit(s, l) ==
    IF s.size[l] < 3 THEN s
    ELSE LET r == RevLoop(s.next, NULL, s.head[l], MaxNodes + 1)
         IN [s EXCEPT !.tail[l] = s.head[l], !.next = r.next,
                      !.head[l] = r.prev]

\* reverse that sets tail_ after the loop, to the node that is now first
reverse_tailAtHead(s, l) ==
    IF s.size[l] < 2 THEN s
    ELSE LET r == RevLoop(s.next, NULL, s.head[l], MaxNodes + 1)
         IN [s EXCEPT !.tail[l] = r.prev, !.next = r.next,
                      !.head[l] = r.prev]

\* void reverse() noexcept
reverse(s, l) ==
    IF s.size[l] < 2 THEN s
    ELSE LET r == RevLoop(s.next, NULL, s.head[l], MaxNodes + 1)
         IN [s EXCEPT !.tail[l] = s.head[l], !.next = r.next,
                      !.head[l] = r.prev]

\* -------------------------------------------------------- element access
\* T& front() / const T& front() const
front(s, l) ==
    IF s.head[l] = NULL THEN Throw(s, "out_of_range")
    ELSE [st |-> s, err |-> "none", ret |-> s.data[s.head[l]]]

\* T& back() / const T& back() const
back(s, l) ==
    IF s.tail[l] = NULL THEN Throw(s, "out_of_range")
    ELSE [st |-> s, err |-> "none", ret |-> s.data[s.tail[l]]]

\* ------------------------------------------- constructors that copy values
RECURSIVE PushAll(_, _, _)
\* for (const auto &value : range) push_back(value);
PushAll(s, l, vals) ==
    IF vals = <<>> THEN s
    ELSE PushAll(push_back(s, l, Head(vals)).st, l, Tail(vals))

\* SinglyLinkedList(std::initializer_list<T> ilist)
ilist_ctor(s, l, vals) == PushAll(default_ctor(s, l), l, vals)

\* copy constructor that copies the pointers instead of the elements
copy_ctor_shallow(s, l, m) ==
    [default_ctor(s, l) EXCEPT !.head[l] = s.head[m], !.tail[l] = s.tail[m],
                               !.size[l] = s.size[m]]

\* SinglyLinkedList(const SinglyLinkedList &other)
copy_ctor(s, l, m) == PushAll(default_ctor(s, l), l, Elems(s, m))

\* a copy assignment that clears the target first and then appends what the
\* source holds
copy_assign_clearFirst(s, l, m) ==
    LET s1 == clear(s, l)
    IN PushAll(s1, l, Elems(s1, m))

\* operator=(SinglyLinkedList other) called with an lvalue: other is a copy
copy_assign(s, l, m) ==
    destroy(swap(copy_ctor(s, "tmp", m), l, "tmp"), "tmp")

\* operator=(SinglyLinkedList other) called with std::move(m)
move_assign(s, l, m) ==
    destroy(swap(move_ctor(s, "tmp", m), l, "tmp"), "tmp")

\* ----------------------------------- copying when the free store runs out
RECURSIVE PushUpTo(_, _, _, _)
\* for (const auto &val : other) push_back(val); when only k more nodes can
\* be allocated: the push_back after them throws std::bad_alloc from
\* std::make_unique, before it touches the list
PushUpTo(s, l, vals, k) ==
    IF vals = <<>> THEN Ok(s)
    ELSE IF k = 0 THEN Throw(s, "bad_alloc")
    ELSE PushUpTo(push_back(s, l, Head(vals)).st, l, Tail(vals), k - 1)

\* SinglyLinkedList(const SinglyLinkedList &other) with k allocations left:
\* the delegated default constructor has completed, so an exception leaving
\* the body runs ~SinglyLinkedList on the partly built copy
copy_ctor_alloc(s, l, m, k) ==
    LET r == PushUpTo(default_ctor(s, l), l, Elems(s, m), k)
    IN IF r.err = "none" THEN r ELSE Throw(destroy(r.st, l), r.err)

\* a copy assignment that clears the target and copies into it directly
copy_assign_inplace(s, l, m, k) ==
    PushUpTo(clear(s, l), l, Elems(s, m), k)

\* a = b with k allocations left: the parameter other is copy-constructed
\* first; if that throws, operator= is never entered
copy_assign_alloc(s, l, m, k) ==
    LET r == copy_ctor_alloc(s, "tmp", m, k)
    IN IF r.err = "none" THEN Ok(destroy(swap(r.st, l, "tmp"), "tmp"))
       ELSE r

\* ----------------------------------------------------------- comparisons
\* a == b that runs std::equal without comparing the sizes first
op_eq_noSize(s, a, b) ==
    LET ea == Elems(s, a)
        eb == Elems(s, b)
    IN \A i \in 1..Len(ea) : i > Len(eb) \/ ea[i] = eb[i]

\* bool operator==(lhs, rhs): sizes first, then std::equal over lhs's range
\* against rhs's elements
op_eq(s, a, b) ==
    IF s.size[a] # s.size[b] THEN FALSE
    ELSE LET ea == Elems(s, a)
             eb == Elems(s, b)
         IN \A i \in 1..Len(ea) : i <= Len(eb) /\ ea[i] = eb[i]

\* bool operator!=(lhs, rhs)
op_ne(s, a, b) == ~op_eq(s, a, b)

RECURSIVE LexLoop(_, _, _)
\* std::lexicographical_compare(first1, last1, first2, last2): advance both
\* iterators while neither is at its end, decide at the first pair that
\* differs; otherwise the range that ended first, alone, is the smaller
LexLoop(s, p, q) ==
    IF p = NULL \/ q = NULL THEN p = NULL /\ q # NULL
    ELSE IF s.data[p] < s.data[q] THEN TRUE
    ELSE IF s.data[q] < s.data[p] THEN FALSE
    ELSE LexLoop(s, s.next[p], s.next[q])

\* a < b with the two ranges handed over in the wrong order
op_lt_swapped(s, a, b) == LexLoop(s, s.head[b], s.head[a])

\* bool operator<(lhs, rhs)
op_lt(s, a, b) == LexLoop(s, s.head[a], s.head[b])

\* ------------------------------------------------------ the client program
InitSt == [head |-> [l \in Slot |-> NULL], tail |-> [l \in Slot |-> NULL],
           size |-> [l \in Slot |-> 0], next |-> [n \in Node |-> NULL],
           data |-> [n \in Node |-> 0], live |-> {},
           exists |-> [l \in Slot |-> l \in List], fault |-> "none",
           depth |-> 0]

\* the record of one call: operation, receiver, other container, position
\* argument, value argument(s), number of node allocations that succeed
\* (-1: all), exception thrown, value returned, deepest nesting of ~Node
Call(op, l) == [op |-> op, l |-> l, m |-> l, pos |-> NULL, v |-> 0,
                vals |-> <<>>, k |-> -1, err |-> "none", ret |-> NULL,
                depth |-> 0]

NoPrev == [op |-> "none", l |-> "a", pos |-> NULL, st |-> InitSt,
           done |-> FALSE]

\* first calls of the two-call sequences whose starting state is kept, and
\* the call that completes each sequence
TrackedFirst == {"push_front", "insert_after", "reverse"}
Second(op) == IF op = "push_front" THEN "pop_front"
              ELSE IF op = "insert_after" THEN "erase_after"
              ELSE IF op = "reverse" THEN "reverse"
              ELSE "none"

NumFree(s) == Cardinality(Node \ s.live)

\* a position obtained from container l: one of its nodes or end()
OwnPos(s, l, p) == p = NULL \/ p \in SeqSet(Chain(s, l))

\* initializer lists of at most MaxInit values
InitLists == UNION {[1..k -> Val] : k \in 0..MaxInit}

Apply(s) ==
    /\ head' = s.head /\ tail' = s.tail /\ list_size' = s.size
    /\ next' = s.next /\ data' = s.data /\ live' = s.live
    /\ exists' = s.exists /\ fault' = s.fault

\* one call of the client: the state changes as the call's result says and
\* the call is remembered.  A successful tracked call also keeps the state it
\* started from; the paired call that follows it at once on the same
\* container (and at the same position) marks the sequence done, any other
\* call drops it.
Step(r, c) ==
    /\ Apply(r.st)
    /\ last' = [c EXCEPT !.err = r.err, !.ret = r.ret, !.depth = r.st.depth]
    /\ prev' = IF /\ ~prev.done /\ prev.op \in TrackedFirst
                  /\ c.op = Second(prev.op) /\ c.l = prev.l
                  /\ c.pos = prev.pos /\ r.err = "none"
               THEN [prev EXCEPT !.done = TRUE]
               ELSE IF c.op \in TrackedFirst /\ r.err = "none"
               THEN [op |-> c.op, l |-> c.l, pos |-> c.pos, st |-> St,
                     done |-> FALSE]
               ELSE NoPrev

Running == fault = "none"

Init ==
    /\ head = InitSt.head /\ tail = InitSt.tail /\ list_size = InitSt.size
    /\ next = InitSt.next /\ data = InitSt.data /\ live = InitSt.live
    /\ exists = InitSt.exists /\ fault = InitSt.fault
    /\ last = Call("default_ctor", "a")
    /\ prev = NoPrev

DefaultCtor(l) ==
    /\ Running /\ ~exists[l]
    /\ Step(Ok(default_ctor(St, l)), Call("default_ctor", l))

IlistCtor(l, vals) ==
    /\ Running /\ ~exists[l] /\ NumFree(St) >= Len(vals)
    /\ Step(Ok(ilist_ctor(St, l, vals)),
            [Call("ilist_ctor", l) EXCEPT !.vals = vals])

CopyCtor(l, m) ==
    /\ Running /\ ~exists[l] /\ exists[m] /\ NumFree(St) >= Len(Chain(St, m))
    /\ Step(Ok(copy_ctor(St, l, m)), [Call("copy_ctor", l) EXCEPT !.m = m])

MoveCtor(l, m) ==
    /\ Running /\ ~exists[l] /\ exists[m]
    /\ Step(Ok(move_ctor(St, l, m)), [Call("move_ctor", l) EXCEPT !.m = m])

Destroy(l) ==
    /\ Running /\ exists[l]
    /\ Step(Ok(destroy(St, l)), Call("destroy", l))

CopyAssign(l, m) ==
    /\ Running /\ exists[l] /\ exists[m] /\ NumFree(St) >= Len(Chain(St, m))
    /\ Step(Ok(copy_assign(St, l, m)), [Call("copy_assign", l) EXCEPT !.m = m])

MoveAssign(l, m) ==
    /\ Running /\ exists[l] /\ exists[m]
    /\ Step(Ok(move_assign(St, l, m)), [Call("move_assign", l) EXCEPT !.m = m])

Swap(l, m) ==
    /\ Running /\ exists[l] /\ exists[m]
    /\ Step(Ok(swap(St, l, m)), [Call("swap", l) EXCEPT !.m = m])

Clear(l) ==
    /\ Running /\ exists[l]
    /\ Step(Ok(clear(St, l)), Call("clear", l))

PushFront(l, v) ==
    /\ Running /\ exists[l] /\ NumFree(St) >= 1
    /\ Step(push_front(St, l, v), [Call("push_front", l) EXCEPT !.v = v])

EmplaceFront(l, v) ==
    /\ Running /\ exists[l] /\ NumFree(St) >= 1
    /\ Step(push_front(St, l, v), [Call("emplace_front", l) EXCEPT !.v = v])

PushBack(l, v) ==
    /\ Running /\ exists[l] /\ NumFree(St) >= 1
    /\ Step(push_back(St, l, v), [Call("push_back", l) EXCEPT !.v = v])

EmplaceBack(l, v) ==
    /\ Running /\ exists[l] /\ NumFree(St) >= 1
    /\ Step(push_back(St, l, v), [Call("emplace_back", l) EXCEPT !.v = v])

PopFront(l) ==
    /\ Running /\ exists[l]
    /\ Step(pop_front(St, l), Call("pop_front", l))

PopBack(l) ==
    /\ Running /\ exists[l]
    /\ Step(pop_back(St, l), Call("pop_back", l))

\* insert_after at an iterator p that was taken from container l
InsertAfter(l, p, v) ==
    /\ Running /\ exists[l] /\ OwnPos(St, l, p) /\ NumFree(St) >= 1
    /\ Step(insert_after(St, l, p, v),
            [Call("insert_after", l) EXCEPT !.pos = p, !.v = v])

EmplaceAfter(l, p, v) ==
    /\ Running /\ exists[l] /\ OwnPos(St, l, p) /\ NumFree(St) >= 1
    /\ Step(insert_after(St, l, p, v),
            [Call("emplace_after", l) EXCEPT !.pos = p, !.v = v])

EraseAfter(l, p) ==
    /\ Running /\ exists[l] /\ OwnPos(St, l, p)
    /\ Step(erase_after(St, l, p), [Call("erase_after", l) EXCEPT !.pos = p])

Reverse(l) ==
    /\ Running /\ exists[l]
    /\ Step(Ok(reverse(St, l)), Call("reverse", l))

Front(l) ==
    /\ Running /\ exists[l]
    /\ Step(front(St, l), Call("front", l))

Back(l) ==
    /\ Running /\ exists[l]
    /\ Step(back(St, l), Call("back", l))

Next ==
    \/ \E l \in List : DefaultCtor(l)
    \/ \E l \in List, vals \in InitLists : IlistCtor(l, vals)
    \/ \E l \in List, m \in List : CopyCtor(l, m)
    \/ \E l \in List, m \in List : MoveCtor(l, m)
    \/ \E l \in List : Destroy(l)
    \/ \E l \in List, m \in List : CopyAssign(l, m)
    \/ \E l \in List, m \in List : MoveAssign(l, m)
    \/ \E l \in List, m \in List : Swap(l, m)
    \/ \E l \in List : Clear(l)
    \/ \E l \in List, v \in Val : PushFront(l, v)
    \/ \E l \in List, v \in Val : EmplaceFront(l, v)
    \/ \E l \in List, v \in Val : PushBack(l, v)
    \/ \E l \in List, v \in Val : EmplaceBack(l, v)
    \/ \E l \in List : PopFront(l)
    \/ \E l \in List : PopBack(l)
    \/ \E l \in List, p \in Ptr, v \in Val : InsertAfter(l, p, v)
    \/ \E l \in List, p \in Ptr, v \in Val : EmplaceAfter(l, p, v)
    \/ \E l \in List, p \in Ptr : EraseAfter(l, p)
    \/ \E l \in List : Reverse(l)
    \/ \E l \in List : Front(l)
    \/ \E l \in List : Back(l)

Spec == Init /\ [][Next]_vars

\* l = m when the allocation of node k + 1 of the copy fails
CopyAssignFail(l, m, k) ==
    /\ Running /\ exists[l] /\ exists[m]
    /\ k < Len(Chain(St, m)) /\ NumFree(St) >= k
    /\ Step(copy_assign_alloc(St, l, m, k),
            [Call("copy_assign", l) EXCEPT !.m = m, !.k = k])

NextAlloc ==
    \/ Next
    \/ \E l \in List, m \in List, k \in 0..MaxNodes : CopyAssignFail(l, m, k)

\* the program with allocation failures during copy assignment
SpecAlloc == Init /\ [][NextAlloc]_vars

\* l == m
Equal(l, m) ==
    /\ Running /\ exists[l] /\ exists[m]
    /\ Step([st |-> St, err |-> "none", ret |-> op_eq(St, l, m)],
            [Call("op_eq", l) EXCEPT !.m = m])

\* l != m
NotEqual(l, m) ==
    /\ Running /\ exists[l] /\ exists[m]
    /\ Step([st |-> St, err |-> "none", ret |-> op_ne(St, l, m)],
            [Call("op_ne", l) EXCEPT !.m = m])

\* l < m
Less(l, m) ==
    /\ Running /\ exists[l] /\ exists[m]
    /\ Step([st |-> St, err |-> "none", ret |-> op_lt(St, l, m)],
            [Call("op_lt", l) EXCEPT !.m = m])

NextCmp ==
    \/ Next
    \/ \E l \in List, m \in List : Equal(l, m)
    \/ \E l \in List, m \in List : NotEqual(l, m)
    \/ \E l \in List, m \in List : Less(l, m)

\* the program with the comparison operators among its calls
SpecCmp == Init /\ [][NextCmp]_vars

\* the last call was handed a position in another container and went through
ForeignCalled ==
    /\ last.op \in {"insert_after", "emplace_after", "erase_after"}
    /\ last.m # last.l /\ last.err = "none"

\* l.insert_after(p, v) where p is a node of container m
InsertAfterForeign(l, m, p, v) ==
    /\ Running /\ ~ForeignCalled /\ exists[l] /\ exists[m] /\ l # m
    /\ p \in SeqSet(Chain(St, m)) /\ NumFree(St) >= 1
    /\ Step(insert_after(St, l, p, v),
            [Call("insert_after", l) EXCEPT !.m = m, !.pos = p, !.v = v])

\* l.emplace_after(p, v) where p is a node of container m
EmplaceAfterForeign(l, m, p, v) ==
    /\ Running /\ ~ForeignCalled /\ exists[l] /\ exists[m] /\ l # m
    /\ p \in SeqSet(Chain(St, m)) /\ NumFree(St) >= 1
    /\ Step(insert_after(St, l, p, v),
            [Call("emplace_after", l) EXCEPT !.m = m, !.pos = p, !.v = v])

\* l.erase_after(p) where p is a node of container m
EraseAfterForeign(l, m, p) ==
    /\ Running /\ ~ForeignCalled /\ exists[l] /\ exists[m] /\ l # m
    /\ p \in SeqSet(Chain(St, m))
    /\ Step(erase_after(St, l, p),
            [Call("erase_after", l) EXCEPT !.m = m, !.pos = p])

\* a client whose calls may pass a position of the other container; its run
\* is followed up to the first such call that goes through
NextForeign ==
    \/ ~ForeignCalled /\ Next
    \/ \E l \in List, m \in List, p \in Node, v \in Val :
           InsertAfterForeign(l, m, p, v)
    \/ \E l \in List, m \in List, p \in Node, v \in Val :
           EmplaceAfterForeign(l, m, p, v)
    \/ \E l \in List, m \in List, p \in Node : EraseAfterForeign(l, m, p)

SpecForeign == Init /\ [][NextForeign]_vars

\* ================================================================ claims

\* what a caller can observe of container l in state s
View(s, l) == [head |-> s.head[l], tail |-> s.tail[l], size |-> s.size[l],
               chain |-> Chain(s, l), elems |-> Elems(s, l)]

\* C1: after any sequence of public operations, for every container the walk
\* from begin() to end() is finite, visits no node twice, visits only
\* allocated nodes, and its length equals size().
SizeMatchesWalk ==
    \A l \in List : exists[l] =>
        LET c == Chain(St, l)
        IN /\ Len(c) <= MaxNodes
           /\ Cardinality(SeqSet(c)) = Len(c)
           /\ SeqSet(c) \subseteq live
           /\ list_size[l] = Len(c)

SizeMatchesWalk_witness ==
    /\ last.op = "erase_after" /\ last.err = "none"
    /\ list_size[last.l] = 2 /\ Len(Chain(St, last.l)) = 2

\* C2: in every reachable state the tail reference of a container, when
\* non-empty, points to an allocated node that is the last node of the walk
\* from head and has no next-link.
TailIsLastNode ==
    \A l \in List : (exists[l] /\ tail[l] # NULL) =>
        LET c == Chain(St, l)
        IN /\ tail[l] \in live
           /\ c # <<>>
           /\ c[Len(c)] = tail[l]
           /\ next[tail[l]] = NULL

TailIsLastNode_witness ==
    /\ last.op = "reverse"
    /\ list_size[last.l] = 3
    /\ tail[last.l] = Chain(St, last.l)[3]
    /\ Elems(St, last.l) = <<2, 1, 1>>

\* C3: in every reachable state of a container, count == 0 iff the head
\* reference is empty iff the tail reference is empty.
EmptinessAgrees ==
    \A l \in List : exists[l] =>
        /\ (list_size[l] = 0) <=> (head[l] = NULL)
        /\ (head[l] = NULL) <=> (tail[l] = NULL)

EmptinessAgrees_witness ==
    /\ last.op = "move_ctor" /\ last.m # last.l
    /\ list_size[last.l] = 2
    /\ list_size[last.m] = 0 /\ head[last.m] = NULL /\ tail[last.m] = NULL

\* the owning links that point at node n: head_ of a container, or the next
\* member of an allocated node
Owners(s, n) ==
    {<<"head", l>> : l \in {x \in Slot : s.head[x] = n}}
    \cup {<<"next", p>> : p \in {x \in s.live : s.next[x] = n}}

\* C4: at all times every allocated node is owned by exactly one link and
\* lies in the chain of exactly one container, no link owns a released
\* node, and no node is released twice; a call releases exactly the nodes
\* that leave the chains (none leaks), and reverse releases and creates none.
SingleOwner ==
    /\ [](/\ fault = "none"
          /\ \A n \in live : Cardinality(Owners(St, n)) = 1
          /\ \A n \in Node \ live : Owners(St, n) = {}
          /\ \A n \in live :
                Cardinality({l \in List :
                    exists[l] /\ n \in SeqSet(Chain(St, l))}) = 1)
    /\ [][/\ \A n \in live :
                (\A l \in List : n \notin SeqSet(Chain(St', l))) => n \notin live'
          /\ last'.op = "reverse" => live' = live]_vars

SingleOwner_witness ==
    /\ last.op = "copy_assign" /\ last.l # last.m
    /\ list_size[last.l] = 1 /\ list_size[last.m] = 1
    /\ live = {2, 3}

\* C5: front(), back(), pop_front() and pop_back() throw std::out_of_range
\* exactly when the container's count is 0, and do not fail when count > 0.
EmptyContainerSignalled ==
    [][last'.op \in {"front", "back", "pop_front", "pop_back"} =>
        /\ (last'.err = "out_of_range") <=> (list_size[last'.l] = 0)
        /\ list_size[last'.l] > 0 => (last'.err = "none" /\ fault' = "none")
      ]_vars

EmptyContainerSignalled_witness ==
    /\ last.op = "back" /\ last.err = "out_of_range"
    /\ list_size[last.l] = 0 /\ live # {}

\* C6: insert_after / emplace_after fail exactly when given the end
\* sentinel; erase_after fails exactly when given the end sentinel or the
\* tail (the node without successor); with a live node of the container
\* (that has a successor, for erase_after) they do not fail.
PositionFailures ==
    [][/\ last'.op \in {"insert_after", "emplace_after"} =>
            /\ (last'.err = "invalid_argument") <=> (last'.pos = NULL)
            /\ last'.pos # NULL => (last'.err = "none" /\ fault' = "none")
       /\ last'.op = "erase_after" =>
            /\ (last'.err = "out_of_range")
                  <=> (last'.pos = NULL \/ last'.pos = tail[last'.l])
            /\ (last'.pos # NULL /\ last'.pos # tail[last'.l])
                  => (last'.err = "none" /\ fault' = "none")
      ]_vars

PositionFailures_witness ==
    /\ last.op = "erase_after" /\ last.err = "out_of_range"
    /\ last.pos # NULL /\ last.pos = tail[last.l]
    /\ list_size[last.l] = 2

\* C7: a call that throws leaves head, tail reference, count and element
\* sequence of every container, and the whole heap, as they were.
FailedCallChangesNothing ==
    [][last'.err # "none" =>
        /\ St' = St
        /\ \A l \in List : View(St', l) = View(St, l)
      ]_vars

FailedCallChangesNothing_witness ==
    /\ last.op = "pop_back" /\ last.err = "out_of_range"
    /\ \E l \in List : l # last.l /\ list_size[l] = 2

\* C8: push_back / emplace_back of v on a container holding s leaves it
\* holding s followed by v, in a new node that is linked after the old tail
\* and is the new tail (head and tail if the container was empty), count
\* grown by 1; a container built from an initializer list holds exactly
\* those values in order, front() the first and back() the last.
PushBackAppends ==
    [][/\ (last'.op \in {"push_back", "emplace_back"} /\ last'.err = "none") =>
            LET l == last'.l
                c0 == Chain(St, l)
                c == Chain(St', l)
            IN /\ Elems(St', l) = Append(Elems(St, l), last'.v)
               /\ Len(c) = Len(c0) + 1
               /\ SubSeq(c, 1, Len(c0)) = c0
               /\ tail'[l] = c[Len(c)]
               /\ tail'[l] \notin live
               /\ list_size'[l] = list_size[l] + 1
               /\ c0 = <<>> => head'[l] = tail'[l]
               /\ c0 # <<>> => (head'[l] = head[l]
                                /\ next'[tail[l]] = tail'[l])
       /\ last'.op = "ilist_ctor" =>
            LET l == last'.l
                vals == last'.vals
            IN /\ Elems(St', l) = vals
               /\ list_size'[l] = Len(vals)
               /\ vals # <<>> =>
                     /\ front(St', l) = [st |-> St', err |-> "none",
                                         ret |-> vals[1]]
                     /\ back(St', l) = [st |-> St', err |-> "none",
                                        ret |-> vals[Len(vals)]]
      ]_vars

PushBackAppends_witness ==
    /\ last.op = "ilist_ctor"
    /\ last.vals = <<1, 2, 2>>
    /\ list_size[last.l] = 3

\* C9: push_front(x) makes x the first element with count + 1, and the
\* pop_front() that immediately follows it returns the container to the
\* state before the push: same count, same nodes and values in the same
\* order, same head and tail (both empty if it was empty).
PushFrontPopFrontInverse ==
    prev.op = "push_front" =>
        /\ ~prev.done =>
              /\ last.op = "push_front" /\ last.l = prev.l
              /\ Elems(St, prev.l) = <<last.v>> \o Elems(prev.st, prev.l)
              /\ list_size[prev.l] = prev.st.size[prev.l] + 1
        /\ prev.done =>
              /\ last.op = "pop_front" /\ last.l = prev.l
              /\ View(St, prev.l) = View(prev.st, prev.l)
              /\ live = prev.st.live

PushFrontPopFrontInverse_witness ==
    /\ prev.op = "push_front" /\ prev.done
    /\ last.op = "pop_front" /\ last.err = "none"
    /\ list_size[last.l] = 2

\* C10: pop_back() on a container with count >= 1 removes exactly the last
\* element: the other nodes and values stay in order, count drops by 1, the
\* old tail is released and the tail reference becomes the node that
\* preceded it; with count == 1 the result is that of pop_front(), head and
\* tail empty.
PopBackRemovesLast ==
    [][(last'.op = "pop_back" /\ list_size[last'.l] >= 1) =>
        LET l == last'.l
            c0 == Chain(St, l)
            n == Len(c0)
        IN /\ last'.err = "none" /\ fault' = "none"
           /\ Chain(St', l) = SubSeq(c0, 1, n - 1)
           /\ Elems(St', l) = SubSeq(Elems(St, l), 1, n - 1)
           /\ list_size'[l] = list_size[l] - 1
           /\ tail'[l] = IF n = 1 THEN NULL ELSE c0[n - 1]
           /\ live' = live \ {tail[l]}
           /\ list_size[l] = 1 =>
                 /\ St' = [pop_front(St, l).st EXCEPT !.depth = 0]
                 /\ head'[l] = NULL /\ tail'[l] = NULL
      ]_vars

PopBackRemovesLast_witness ==
    /\ last.op = "pop_back" /\ last.err = "none"
    /\ list_size[last.l] = 2
    /\ live = {1, 2}

\* C11: insert_after / emplace_after at a live node n of the container link
\* one new node holding v directly between n and n's former successor, all
\* other nodes keep their order, the new node is the tail exactly when n was
\* the tail, count grows by 1, and the returned position is the new node.
InsertAfterLinks ==
    [][(last'.op \in {"insert_after", "emplace_after"} /\ last'.err = "none") =>
        LET l == last'.l
            p == last'.pos
            c0 == Chain(St, l)
            i == CHOOSE k \in 1..Len(c0) : c0[k] = p
            new == last'.ret
        IN /\ new \in live' \ live
           /\ data'[new] = last'.v
           /\ next'[p] = new
           /\ next'[new] = next[p]
           /\ Chain(St', l) = SubSeq(c0, 1, i) \o <<new>>
                                 \o SubSeq(c0, i + 1, Len(c0))
           /\ Elems(St', l) = SubSeq(Elems(St, l), 1, i) \o <<last'.v>>
                                 \o SubSeq(Elems(St, l), i + 1, Len(c0))
           /\ (tail'[l] = new) <=> (tail[l] = p)
           /\ tail[l] # p => tail'[l] = tail[l]
           /\ head'[l] = head[l]
           /\ list_size'[l] = list_size[l] + 1
      ]_vars

InsertAfterLinks_witness ==
    /\ last.op = "insert_after" /\ last.err = "none"
    /\ list_size[last.l] = 3
    /\ next[last.pos] = last.ret
    /\ last.pos = head[last.l]
    /\ Elems(St, last.l) = <<1, 2, 1>>

\* C12: erase_after at a live node n that has a successor removes and
\* releases exactly that successor, all other nodes keep their order, n is
\* the tail exactly when the removed node was the tail, count drops by 1,
\* and the returned position is the node now following n (end() when the
\* removed node was the tail); so insert_after(pos, v) followed at once by
\* erase_after(pos) restores the container.
EraseAfterUnlinks ==
    /\ [][(last'.op = "erase_after" /\ last'.err = "none") =>
            LET l == last'.l
                p == last'.pos
                c0 == Chain(St, l)
                n == Len(c0)
                i == CHOOSE k \in 1..n : c0[k] = p
                d == c0[i + 1]
            IN /\ i < n
               /\ live' = live \ {d}
               /\ Chain(St', l) = SubSeq(c0, 1, i) \o SubSeq(c0, i + 2, n)
               /\ Elems(St', l) = SubSeq(Elems(St, l), 1, i)
                                     \o SubSeq(Elems(St, l), i + 2, n)
               /\ (tail'[l] = p) <=> (tail[l] = d)
               /\ tail[l] # d => tail'[l] = tail[l]
               /\ head'[l] = head[l]
               /\ list_size'[l] = list_size[l] - 1
               /\ last'.ret = next'[p]
               /\ last'.ret = IF i + 1 = n THEN NULL ELSE c0[i + 2]
               /\ (last'.ret = NULL) <=> (tail[l] = d)
         ]_vars
    /\ []((prev.op = "insert_after" /\ prev.done) =>
            /\ last.op = "erase_after" /\ last.l = prev.l
            /\ View(St, prev.l) = View(prev.st, prev.l)
            /\ live = prev.st.live)

EraseAfterUnlinks_witness ==
    /\ prev.op = "insert_after" /\ prev.done
    /\ last.op = "erase_after" /\ last.err = "none"
    /\ last.pos = head[last.l]
    /\ Elems(St, last.l) = <<1, 2>>

\* C13: reverse() leaves the container holding its elements in reverse order
\* in the same nodes: no node is created or released, every node keeps its
\* data, the former tail is the head, the former head is the tail and has no
\* next-link, count is unchanged, and advancing from a node now reaches the
\* node that preceded it; with count < 2 nothing changes.
ReverseRelinks ==
    [][last'.op = "reverse" =>
        LET l == last'.l
            c0 == Chain(St, l)
            n == Len(c0)
        IN /\ last'.err = "none"
           /\ live' = live /\ data' = data
           /\ list_size'[l] = list_size[l]
           /\ Chain(St', l) = [i \in 1..n |-> c0[n + 1 - i]]
           /\ Elems(St', l) = [i \in 1..n |-> Elems(St, l)[n + 1 - i]]
           /\ n >= 1 => /\ head'[l] = tail[l]
                        /\ tail'[l] = head[l]
                        /\ next'[head[l]] = NULL
           /\ \A i \in 2..n : next'[c0[i]] = c0[i - 1]
           /\ n < 2 => St' = St
      ]_vars

ReverseRelinks_witness ==
    /\ last.op = "reverse"
    /\ list_size[last.l] = 3
    /\ head[last.l] = 3 /\ next[3] = 2 /\ next[2] = 1 /\ tail[last.l] = 1
    /\ Elems(St, last.l) = <<2, 2, 1>>

\* C14: calling reverse() twice in a row restores the original element
\* order, the original head node and the original tail node.
ReverseTwiceRestores ==
    (prev.op = "reverse" /\ prev.done) =>
        /\ last.op = "reverse" /\ last.l = prev.l
        /\ View(St, prev.l) = View(prev.st, prev.l)
        /\ St = prev.st

ReverseTwiceRestores_witness ==
    /\ prev.op = "reverse" /\ prev.done
    /\ last.op = "reverse"
    /\ list_size[last.l] = 3
    /\ Elems(St, last.l) = <<1, 2, 2>>

\* C15: a copy (copy construction or copy assignment from another
\* container) compares equal to its source, holds the same values in the
\* same order in nodes of its own, and leaves the source as it was; and a
\* call never changes a container it was not given, so later mutations of
\* the source do not change the copy, nor the other way round.
CopyIsIndependent ==
    [][/\ (last'.op \in {"copy_ctor", "copy_assign"} /\ last'.l # last'.m) =>
            LET l == last'.l
                m == last'.m
            IN /\ op_eq(St', l, m) /\ op_eq(St', m, l)
               /\ Elems(St', l) = Elems(St, m)
               /\ list_size'[l] = list_size[m]
               /\ SeqSet(Chain(St', l)) \cap SeqSet(Chain(St', m)) = {}
               /\ View(St', m) = View(St, m)
       /\ \A x \in List : (x # last'.l /\ x # last'.m) =>
               View(St', x) = View(St, x)
      ]_vars

CopyIsIndependent_witness ==
    /\ last.op = "copy_assign" /\ last.l # last.m
    /\ Elems(St, last.l) = <<2>> /\ Elems(St, last.m) = <<2>>
    /\ head[last.l] = 3 /\ head[last.m] = 2 /\ 1 \notin live

\* C16: after move construction or move assignment l = move(m) from another
\* container, l holds m's former nodes and values in their order with its
\* tail reference at the last of them, the former contents of l are
\* released, and m has count 0 and empty head and tail references: its
\* state is that of a freshly constructed empty container.
MoveEmptiesSource ==
    [][(last'.op \in {"move_ctor", "move_assign"} /\ last'.l # last'.m) =>
        LET l == last'.l
            m == last'.m
            c0 == Chain(St, m)
        IN /\ Chain(St', l) = c0
           /\ Elems(St', l) = Elems(St, m)
           /\ list_size'[l] = list_size[m]
           /\ head'[l] = head[m] /\ tail'[l] = tail[m]
           /\ c0 # <<>> => tail'[l] = c0[Len(c0)]
           /\ live' = live \ SeqSet(Chain(St, l))
           /\ list_size'[m] = 0 /\ head'[m] = NULL /\ tail'[m] = NULL
           /\ exists'[m]
           /\ default_ctor(St', m) = St'
      ]_vars

MoveEmptiesSource_witness ==
    /\ last.op = "move_assign" /\ last.l # last.m
    /\ Elems(St, last.l) = <<1, 2>>
    /\ head[last.l] = 2 /\ tail[last.l] = 3 /\ live = {2, 3}
    /\ list_size[last.m] = 0

\* C17: swap(a, b) exchanges the complete contents of the two containers:
\* each ends up with the other's former head, tail reference, count, nodes
\* and values; no node is created, released or relinked, and swap does not
\* fail, also when one or both are empty or a and b are the same container.
SwapExchanges ==
    [][last'.op = "swap" =>
        LET a == last'.l
            b == last'.m
        IN /\ last'.err = "none" /\ fault' = "none"
           /\ View(St', a) = View(St, b)
           /\ View(St', b) = View(St, a)
           /\ live' = live /\ next' = next /\ data' = data
           /\ exists' = exists
      ]_vars

SwapExchanges_witness ==
    /\ last.op = "swap" /\ last.l = "a" /\ last.m = "b"
    /\ Elems(St, "a") = <<2, 2>> /\ Chain(St, "a") = <<2, 3>>
    /\ Elems(St, "b") = <<1>> /\ Chain(St, "b") = <<1>>

\* C18: every mutator releases at most the node its contract names:
\* push_front, push_back, their emplace forms, insert_after, emplace_after
\* and reverse release nothing, pop_front only the old head, pop_back only
\* the old tail, erase_after only the successor of pos, and a call that
\* throws nothing; every other node stays allocated, stays in the same
\* container and keeps its data.
MutatorsReleaseOnlyNamed ==
    [][last'.op \in {"push_front", "emplace_front", "push_back",
                     "emplace_back", "insert_after", "emplace_after",
                     "reverse", "pop_front", "pop_back", "erase_after"} =>
        LET l == last'.l
            named == IF last'.err # "none" THEN {}
                     ELSE IF last'.op = "pop_front" THEN {head[l]}
                     ELSE IF last'.op = "pop_back" THEN {tail[l]}
                     ELSE IF last'.op = "erase_after" THEN {next[last'.pos]}
                     ELSE {}
        IN /\ live \ live' = named
           /\ \A n \in live \ named :
                 /\ n \in live'
                 /\ data'[n] = data[n]
                 /\ \A x \in List : (n \in SeqSet(Chain(St', x)))
                                      <=> (n \in SeqSet(Chain(St, x)))
      ]_vars

MutatorsReleaseOnlyNamed_witness ==
    /\ last.op = "erase_after" /\ last.err = "none"
    /\ Chain(St, last.l) = <<1, 3>>
    /\ live = {1, 3}

\* C19: releasing a container's chain by clear() or by destruction drops
\* the nodes one after another in a loop: the ~Node calls never nest, however
\* many nodes the chain has.
ReleaseIsIterative ==
    last.op \in {"clear", "destroy"} => last.depth <= 1

\* C20: if creating a node fails partway through the copy made for a copy
\* assignment a = b, a is left unmodified (same head, tail reference, count
\* and element sequence), b is unchanged, and the nodes already copied are
\* released.
FailedCopyAssignKeepsTarget ==
    [][(last'.op = "copy_assign" /\ last'.err # "none") =>
        /\ last'.err = "bad_alloc"
        /\ View(St', last'.l) = View(St, last'.l)
        /\ View(St', last'.m) = View(St, last'.m)
        /\ St' = St
      ]_vars

FailedCopyAssignKeepsTarget_witness ==
    /\ last.op = "copy_assign" /\ last.err = "bad_alloc"
    /\ last.k = 1 /\ last.depth = 1
    /\ last.l # last.m
    /\ list_size[last.m] = 2

\* the elements of x and y agree at every position 1..n
PairwiseEqual(x, y, n) == \A i \in 1..n : x[i] = y[i]

\* C21: a == b is true exactly when both containers report the same size()
\* and the elements at every matching position in chain order are equal;
\* a != b answers the opposite of a == b.
EqualityIsPairwise ==
    /\ last.op = "op_eq" =>
         (last.ret <=>
            /\ list_size[last.l] = list_size[last.m]
            /\ PairwiseEqual(Elems(St, last.l), Elems(St, last.m),
                             list_size[last.l]))
    /\ last.op = "op_ne" => (last.ret <=> ~op_eq(St, last.l, last.m))
    /\ \A a \in List, b \in List : (exists[a] /\ exists[b]) =>
         (op_eq(St, a, b) <=> Elems(St, a) = Elems(St, b))

EqualityIsPairwise_witness ==
    /\ last.op = "op_eq" /\ last.ret = TRUE /\ last.l # last.m
    /\ list_size[last.l] = 1 /\ head[last.l] # head[last.m]

\* x precedes y in dictionary order: at the first position where they differ
\* x has the smaller element, or x has ended there and y has not
LexLess(x, y) ==
    \E i \in 1..Len(y) :
        /\ i <= Len(x) + 1
        /\ \A j \in 1..(i - 1) : x[j] = y[j]
        /\ (i = Len(x) + 1 \/ x[i] < y[i])

\* C22: a < b is the lexicographic comparison of the two element sequences
\* (the first differing position decides, a proper prefix is smaller, an empty
\* container is smaller than any non-empty one), so for any two containers
\* exactly one of a < b, a == b, b < a holds.
LessIsLexicographic ==
    /\ last.op = "op_lt" =>
         (last.ret <=> LexLess(Elems(St, last.l), Elems(St, last.m)))
    /\ \A a \in List, b \in List : (exists[a] /\ exists[b]) =>
         /\ op_lt(St, a, b) \/ op_eq(St, a, b) \/ op_lt(St, b, a)
         /\ ~(op_lt(St, a, b) /\ op_eq(St, a, b))
         /\ ~(op_lt(St, a, b) /\ op_lt(St, b, a))
         /\ ~(op_eq(St, a, b) /\ op_lt(St, b, a))
         /\ (Elems(St, a) = <<>> /\ Elems(St, b) # <<>>) => op_lt(St, a, b)

LessIsLexicographic_witness ==
    /\ last.op = "op_lt" /\ last.ret = TRUE
    /\ Len(Elems(St, last.l)) = 1 /\ Len(Elems(St, last.m)) = 2
    /\ Elems(St, last.l)[1] = Elems(St, last.m)[1]

\* C23: insert_after, emplace_after and erase_after called on a container
\* with a position that references a live node of a different container leave
\* both containers with size() equal to the number of nodes reachable from
\* begin() and, when non-empty, with the tail reference on the last node of
\* their own chain.
ForeignPositionKeepsInvariants ==
    (/\ last.op \in {"insert_after", "emplace_after", "erase_after"}
     /\ last.m # last.l) =>
        \A x \in {last.l, last.m} :
            LET c == Chain(St, x)
            IN /\ list_size[x] = Len(c)
               /\ c # <<>> => (tail[x] = c[Len(c)] /\ tail[x] \in live)

\* C24: assigning a container to itself, by copy (a = a) or by move
\* (a = move(a)), leaves it with the same count and the same elements in the
\* same order, with size() matching its chain and the tail on its last node,
\* every allocated node in exactly one chain (none leaked) and none released
\* twice; the other container is not touched.
SelfAssignKeepsContents ==
    [][(last'.op \in {"copy_assign", "move_assign"} /\ last'.l = last'.m) =>
        LET l == last'.l
            c == Chain(St', l)
        IN /\ last'.err = "none" /\ fault' = "none"
           /\ list_size'[l] = list_size[l]
           /\ Elems(St', l) = Elems(St, l)
           /\ Len(c) = list_size'[l]
           /\ c # <<>> => (tail'[l] = c[Len(c)] /\ next'[tail'[l]] = NULL)
           /\ c = <<>> => (head'[l] = NULL /\ tail'[l] = NULL)
           /\ Cardinality(live') = Cardinality(live)
           /\ \A n \in live' : Cardinality(Owners(St', n)) = 1
           /\ \A n \in live' : \E x \in List :
                  exists'[x] /\ n \in SeqSet(Chain(St', x))
           /\ ~exists'["tmp"]
           /\ \A x \in List \ {l} : View(St', x) = View(St, x)
      ]_vars

SelfAssignKeepsContents_witness ==
    /\ last.op = "copy_assign" /\ last.l = last.m
    /\ Elems(St, last.l) = <<2>> /\ head[last.l] = 2 /\ live = {2}

====
